---------------------------- MODULE Spec2Model ----------------------------
(***************************************************************************)
(* Model of shinysdr/i/network/export_http.py: the HTTP resource tree that *)
(* exports a tree of blocks and cells.  Byte strings (request bodies,      *)
(* response bodies, URLs, child names) are sequences of one-character      *)
(* strings.  Objects (blocks, cells, resources) are integers that stand    *)
(* for object identity; an identity is never reused.                       *)
(***************************************************************************)
EXTENDS Integers, Sequences, FiniteSets, TLC

(***************************************************************************)
(* Bounds of the model.                                                    *)
(***************************************************************************)
\* Number of Block objects ever constructed, the root and the collection
\* included.
MaxBlocks == 4

\* Number of graph-image requests made.
MaxViz == 1

\* Number of chunks of standard output that arrive for one graph-image
\* request.
MaxChunks == 2

(***************************************************************************)
(* Characters and byte strings.                                            *)
(***************************************************************************)
Digits == <<"0", "1", "2", "3", "4", "5", "6", "7", "8", "9">>

Letters ==
    {"a", "b", "c", "d", "e", "f", "g", "h", "i", "j", "k", "l", "m",
     "n", "o", "p", "q", "r", "s", "t", "u", "v", "w", "x", "y", "z",
     "A", "B", "C", "D", "E", "F", "N", "T"}

IsDigit(c) == \E d \in 1..10 : Digits[d] = c

DigitVal(c) == (CHOOSE d \in 1..10 : Digits[d] = c) - 1

EmptyFn == [x \in {} |-> 0]

\* d with key k bound to v (Python: d[k] = v)
DictPut(d, k, v) == [x \in (DOMAIN d) \cup {k} |-> IF x = k THEN v ELSE d[x]]

\* d without key k (Python: del d[k])
DictDel(d, k) == [x \in (DOMAIN d) \ {k} |-> d[x]]

RECURSIVE NatOf(_)
NatOf(s) ==
    IF s = <<>> THEN 0
    ELSE NatOf(SubSeq(s, 1, Len(s) - 1)) * 10 + DigitVal(s[Len(s)])

RECURSIVE DecOf(_)
DecOf(n) ==
    IF n < 10 THEN <<Digits[n + 1]>>
    ELSE DecOf(n \div 10) \o <<Digits[(n % 10) + 1]>>

RECURSIVE LStrip(_)
LStrip(s) == IF s # <<>> /\ Head(s) = " " THEN LStrip(Tail(s)) ELSE s

RECURSIVE RStrip(_)
RStrip(s) ==
    IF s # <<>> /\ s[Len(s)] = " " THEN RStrip(SubSeq(s, 1, Len(s) - 1)) ELSE s

(***************************************************************************)
(* JSON values.  Every value is a record of the same shape; k is the kind. *)
(***************************************************************************)
JNull == [k |-> "null", n |-> 0, s |-> <<>>]
JTrue == [k |-> "true", n |-> 0, s |-> <<>>]
JFalse == [k |-> "false", n |-> 0, s |-> <<>>]
JNum(i) == [k |-> "num", n |-> i, s |-> <<>>]
JStr(cs) == [k |-> "str", n |-> 0, s |-> cs]
\* the outcome of a parse that raises ValueError
JError == [k |-> "ValueError", n |-> 0, s |-> <<>>]

IsNatText(t) ==
    /\ t # <<>>
    /\ \A i \in 1..Len(t) : IsDigit(t[i])
    /\ (Len(t) > 1 => t[1] # "0")

\* json.loads on a byte string: whitespace around one scalar document.
json_loads(text) ==
    LET t == RStrip(LStrip(text)) IN
    IF t = <<"n", "u", "l", "l">> THEN JNull
    ELSE IF t = <<"t", "r", "u", "e">> THEN JTrue
    ELSE IF t = <<"f", "a", "l", "s", "e">> THEN JFalse
    ELSE IF IsNatText(t) THEN JNum(NatOf(t))
    ELSE IF t # <<>> /\ Head(t) = "-" /\ IsNatText(Tail(t))
        THEN JNum(0 - NatOf(Tail(t)))
    ELSE IF /\ Len(t) >= 2
            /\ t[1] = "\""
            /\ t[Len(t)] = "\""
            /\ \A i \in 2..(Len(t) - 1) : t[i] \notin {"\"", "\\"}
        THEN JStr(SubSeq(t, 2, Len(t) - 1))
    ELSE JError

\* serialize(value).encode('utf-8'): json.dumps of the value.
serialize(v) ==
    CASE v.k = "null" -> <<"n", "u", "l", "l">>
      [] v.k = "true" -> <<"t", "r", "u", "e">>
      [] v.k = "false" -> <<"f", "a", "l", "s", "e">>
      [] v.k = "num" ->
            IF v.n < 0 THEN <<"-">> \o DecOf(0 - v.n) ELSE DecOf(v.n)
      [] v.k = "str" -> <<"\"">> \o v.s \o <<"\"">>

\* Python's str(value)
py_str(v) ==
    CASE v.k = "null" -> <<"N", "o", "n", "e">>
      [] v.k = "true" -> <<"T", "r", "u", "e">>
      [] v.k = "false" -> <<"F", "a", "l", "s", "e">>
      [] v.k = "num" ->
            IF v.n < 0 THEN <<"-">> \o DecOf(0 - v.n) ELSE DecOf(v.n)
      [] v.k = "str" -> v.s

(***************************************************************************)
(* URL escaping.                                                           *)
(***************************************************************************)
AlwaysSafe == Letters \cup {"0", "1", "2", "3", "4", "5", "6", "7", "8", "9",
                            "_", ".", "-"}

\* the %XX escape of a character outside the safe set
PercentEscape(c) ==
    CASE c = "/" -> <<"%", "2", "F">>
      [] c = "%" -> <<"%", "2", "5">>
      [] c = " " -> <<"%", "2", "0">>
      [] c = "\"" -> <<"%", "2", "2">>
      [] OTHER -> <<c>>

\* urllib.quote(s, safe)
RECURSIVE quote(_, _)
quote(s, safe) ==
    IF s = <<>> THEN <<>>
    ELSE (IF Head(s) \in AlwaysSafe \cup safe
            THEN <<Head(s)>>
            ELSE PercentEscape(Head(s))) \o quote(Tail(s), safe)

\* urllib.unquote(s)
RECURSIVE unquote(_)
unquote(s) ==
    IF s = <<>> THEN <<>>
    ELSE IF Len(s) >= 3 /\ \E c \in {"/", "%", " ", "\""} :
                              PercentEscape(c) = SubSeq(s, 1, 3)
        THEN <<CHOOSE c \in {"/", "%", " ", "\""} :
                   PercentEscape(c) = SubSeq(s, 1, 3)>>
             \o unquote(SubSeq(s, 4, Len(s)))
    ELSE <<Head(s)>> \o unquote(Tail(s))

\* s.split('/')
RECURSIVE SplitSlash(_, _)
SplitSlash(s, cur) ==
    IF s = <<>> THEN <<cur>>
    ELSE IF Head(s) = "/" THEN <<cur>> \o SplitSlash(Tail(s), <<>>)
    ELSE SplitSlash(Tail(s), Append(cur, Head(s)))

(***************************************************************************)
(* The exported object model: blocks, cells, and the HTTP inputs.          *)
(***************************************************************************)
receivers == <<"r", "e", "c", "e", "i", "v", "e", "r", "s">>

volume == <<"v", "o", "l", "u", "m", "e">>

\* keys a collection may give to a created child
Keys == {<<"a">>, <<"/">>}

\* request bodies
Bodies ==
    {<<"7">>, <<" ", "7">>, <<"-", "1", "0">>, <<"0", "7">>,
     <<"t", "r", "u", "e">>, <<"\"", "a", "\"">>, <<>>}

\* what a PUT request brings: the body, and whether the cell's setter takes
\* the value parsed from it
PutInputs ==
    {[data |-> d, accepts |-> TRUE] : d \in Bodies}
        \cup {[data |-> <<"7">>, accepts |-> FALSE]}

\* what a POST request brings: whether its Content-Type is application/json,
\* the body, whether create_child takes the description parsed from it, and
\* the key create_child then returns
PostInputs ==
    {[isJson |-> FALSE, content |-> <<"7">>, accepted |-> TRUE, key |-> <<"a">>],
     [isJson |-> TRUE, content |-> <<>>, accepted |-> TRUE, key |-> <<"a">>],
     [isJson |-> TRUE, content |-> <<"7">>, accepted |-> FALSE, key |-> <<"a">>]}
        \cup {[isJson |-> TRUE, content |-> <<"7">>, accepted |-> TRUE, key |-> k]
                : k \in Keys}

\* request paths below the root BlockResource, as decoded segments
ReqPaths ==
    {<<>>, <<volume>>, <<receivers>>, <<<<"a">>>>}
        \cup {<<receivers, k>> : k \in Keys}

application_json ==
    <<"a", "p", "p", "l", "i", "c", "a", "t", "i", "o", "n", "/",
      "j", "s", "o", "n">>

text_html == <<"t", "e", "x", "t", "/", "h", "t", "m", "l">>

\* a media range of an Accept header, with its quality in tenths
Range_q(type, q) == [type |-> type, q |-> q]

\* Accept request headers: absent, or the media ranges listed
AcceptHeaders ==
    {[present |-> FALSE, ranges |-> <<>>],
     [present |-> TRUE, ranges |-> <<Range_q(application_json, 10)>>],
     [present |-> TRUE, ranges |-> <<Range_q(text_html, 10)>>],
     [present |-> TRUE, ranges |-> <<Range_q(text_html, 10),
                                     Range_q(application_json, 1)>>],
     [present |-> TRUE, ranges |-> <<Range_q(application_json, 10),
                                     Range_q(text_html, 9)>>]}

\* the text of an Accept header: the ranges separated by commas, a quality
\* below 1 written as ;q=0.d
RECURSIVE HeaderText(_)
HeaderText(ranges) ==
    IF ranges = <<>> THEN <<>>
    ELSE LET r == Head(ranges)
             one == r.type \o (IF r.q = 10 THEN <<>>
                               ELSE <<";", "q", "=", "0", ".">> \o DecOf(r.q))
         IN  IF Len(ranges) = 1 THEN one
             ELSE one \o <<",">> \o HeaderText(Tail(ranges))

\* t in s, of Python byte strings
Contains(s, t) ==
    \E i \in 0..(Len(s) - Len(t)) : SubSeq(s, i + 1, i + Len(t)) = t

\* chunks of the standard output of the dot subprocess
Chunks == {"x", "y"}

NoObj == 0

NoRes == 0

RootBlock == 1

CollectionBlock == 2

VolumeCell == 1

ReceiversCell == 2

RootRes == 1

VARIABLES
    blocks,        \* Block object -> [dynamic, writable, state: name -> cell]
    cells,         \* Cell object -> [isBlock, value, block]
    nextId,        \* identity of the next block constructed, and of its cell
    res,           \* BlockResource objects, in order of construction
    lastResolved,  \* <<parent resource, name>> -> last resolution's result
    putHist,       \* request path -> value last PUT there, while still current
    deleted,       \* <<block, name>> removed by a DELETE and not named since
    built,         \* BlockResource -> the state of its block at construction
    viz,           \* the graph-image requests, in order of arrival
    resp           \* the request last handled and its response

vars ==
    <<blocks, cells, nextId, res, lastResolved, putHist, deleted, built, viz,
      resp>>

\* a request's not_deletable closure: the root resource cannot delete itself
NotDeletable == [parent |-> NoRes, name |-> <<>>]

\* __init__ that takes the snapshot of the state whether or not the block is
\* dynamic
BlockResource_snapshot(block, deleteSelf) ==
    LET st == blocks[block].state
    IN  [block |-> block,
         deleteSelf |-> deleteSelf,
         dynamic |-> FALSE,
         cache |-> EmptyFn,
         blockCells |->
            [k \in {k \in DOMAIN st : cells[st[k]].isBlock} |-> st[k]],
         children |->
            [k \in {k \in DOMAIN st : ~cells[st[k]].isBlock} |->
                [kind |-> "ValueCellResource", cell |-> st[k]]]]

\* BlockResource.__init__
BlockResource(block, deleteSelf) ==
    LET st == blocks[block].state
        dyn == blocks[block].dynamic
    IN  [block |-> block,
         deleteSelf |-> deleteSelf,
         dynamic |-> dyn,
         cache |-> EmptyFn,
         blockCells |->
            IF dyn THEN EmptyFn
            ELSE [k \in {k \in DOMAIN st : cells[st[k]].isBlock} |-> st[k]],
         children |->
            IF dyn THEN EmptyFn
            ELSE [k \in {k \in DOMAIN st : ~cells[st[k]].isBlock} |->
                    [kind |-> "ValueCellResource", cell |-> st[k]]]]

\* __makeChildBlockResource that wraps the root block
makeChildBlockResource_root(p, name, block) ==
    BlockResource(RootBlock, [parent |-> p, name |-> name])

\* BlockResource.__makeChildBlockResource: the deleter closure keeps the
\* parent resource and the name
makeChildBlockResource(p, name, block) ==
    BlockResource(block, [parent |-> p, name |-> name])

\* __getBlockChild that constructs a resource on every call
getBlockChild_uncached(rs, p, name, block) ==
    LET r == Len(rs) + 1
        made == makeChildBlockResource(p, name, block)
    IN  [rs |-> Append([rs EXCEPT ![p].cache = DictPut(rs[p].cache, block, r)],
                       made),
         r |-> r]

\* __getBlockChild whose cache is keyed by the child's name
getBlockChild_byName(rs, p, name, block) ==
    LET old == {r \in DOMAIN rs :
                    rs[r].deleteSelf = [parent |-> p, name |-> name]}
    IN  IF old # {}
            THEN [rs |-> rs, r |-> CHOOSE r \in old : TRUE]
            ELSE getBlockChild_uncached(rs, p, name, block)

\* BlockResource.isForBlock on resource r of rs
isForBlock(rs, r, block) == rs[r].block = block

\* BlockResource.__getBlockChild on resource p of rs
getBlockChild(rs, p, name, block) ==
    IF block \in DOMAIN rs[p].cache
        THEN [rs |-> rs, r |-> rs[p].cache[block]]
        ELSE LET r == Len(rs) + 1
                 made == makeChildBlockResource(p, name, block)
             IN  [rs |-> Append([rs EXCEPT ![p].cache =
                                    DictPut(rs[p].cache, block, r)], made),
                  r |-> r]

\* getChild that reads the block's current state whether or not the block
\* is dynamic
getChild_live(rs, p, name) ==
    LET curstate == blocks[rs[p].block].state IN
    IF name \in DOMAIN curstate /\ cells[curstate[name]].isBlock
        THEN LET b == cells[curstate[name]].block
                 g == getBlockChild(rs, p, name, b)
             IN  [rs |-> g.rs, r |-> g.r, block |-> b]
        ELSE [rs |-> rs, r |-> NoRes, block |-> NoObj]

\* BlockResource.getChild on resource p of rs; r = NoRes is the NoResource
\* page that Resource.getChild returns
getChild(rs, p, name) ==
    LET miss == [rs |-> rs, r |-> NoRes, block |-> NoObj] IN
    IF rs[p].dynamic
        THEN LET curstate == blocks[rs[p].block].state IN
             IF name \in DOMAIN curstate /\ cells[curstate[name]].isBlock
                THEN LET b == cells[curstate[name]].block
                         g == getBlockChild(rs, p, name, b)
                     IN  [rs |-> g.rs, r |-> g.r, block |-> b]
                ELSE miss
        ELSE IF name \in DOMAIN rs[p].blockCells
                THEN LET b == cells[rs[p].blockCells[name]].block
                         g == getBlockChild(rs, p, name, b)
                     IN  [rs |-> g.rs, r |-> g.r, block |-> b]
                ELSE miss

NoLeaf == [kind |-> "", cell |-> NoObj]

\* The site's traversal from resource cur along path: a child installed
\* with putChild wins, a leaf ends the traversal, otherwise getChild.
RECURSIVE Walk(_, _, _, _, _, _)
Walk(rs, lr, cur, path, prepath, steps) ==
    IF path = <<>>
        THEN [rs |-> rs, lr |-> lr, kind |-> "block", target |-> cur,
              leaf |-> NoLeaf, prepath |-> prepath, steps |-> steps]
    ELSE LET name == Head(path) IN
         IF name \in DOMAIN rs[cur].children
            THEN [rs |-> rs, lr |-> lr, kind |-> "cell", target |-> cur,
                  leaf |-> rs[cur].children[name],
                  prepath |-> Append(prepath, name), steps |-> steps]
         ELSE LET g == getChild(rs, cur, name)
                  prev == IF <<cur, name>> \in DOMAIN lr
                            THEN lr[<<cur, name>>]
                            ELSE [block |-> NoObj, r |-> NoRes]
                  step == [parent |-> cur, name |-> name,
                           block |-> g.block, r |-> g.r,
                           prevBlock |-> prev.block, prevR |-> prev.r]
              IN  IF g.r = NoRes
                    THEN [rs |-> rs, lr |-> lr, kind |-> "none",
                          target |-> NoRes, leaf |-> NoLeaf,
                          prepath |-> Append(prepath, name),
                          steps |-> Append(steps, step)]
                    ELSE Walk(g.rs,
                              DictPut(lr, <<cur, name>>,
                                      [block |-> g.block, r |-> g.r]),
                              g.r, Tail(path), Append(prepath, name),
                              Append(steps, step))

Traverse(path) == Walk(res, lastResolved, RootRes, path, <<>>, <<>>)

(***************************************************************************)
(* Handlers.  Each returns what the handler did: the exception it raised   *)
(* ("" when it returned), the collaborator calls it made in order, and the *)
(* response it set.                                                        *)
(***************************************************************************)
Effect ==
    [raised |-> "", calls |-> <<>>, code |-> 200, body |-> <<>>,
     contentType |-> "", repr |-> "", location |-> <<>>,
     set |-> FALSE, value |-> JNull,
     create |-> FALSE, key |-> <<>>,
     delete |-> FALSE, block |-> NoObj, name |-> <<>>,
     pending |-> FALSE]

Raise(exc, calls) == [Effect EXCEPT !.raised = exc, !.calls = calls]

\* _CellResource.grparse and its override ValueCellResource.grparse
CellResource_grparse(kind, data) ==
    IF kind = "ValueCellResource" THEN json_loads(data)
    ELSE [k |-> "NotImplementedError", n |-> 0, s |-> <<>>]

\* grrender without the override: the base class's str(value)
ValueCellResource_grrender_str(value) == py_str(value)

\* ValueCellResource.grrender
ValueCellResource_grrender(value) == serialize(value)

\* _CellResource.grrender and its override
CellResource_grrender(kind, value) ==
    IF kind = "ValueCellResource" THEN ValueCellResource_grrender(value)
    ELSE py_str(value)

\* render_GET that notes the state dirty
CellResource_render_GET_dirty(cr) ==
    [Effect EXCEPT !.calls = <<"cell.get", "note_dirty">>,
                   !.body = CellResource_grrender(cr.kind, cells[cr.cell].value)]

\* _CellResource.render_GET
CellResource_render_GET(cr) ==
    [Effect EXCEPT !.calls = <<"cell.get">>,
                   !.body = CellResource_grrender(cr.kind, cells[cr.cell].value)]

\* render_PUT that sets the response code before it reads the body
CellResource_render_PUT_codeFirst(cr, data, accepts) ==
    LET v == CellResource_grparse(cr.kind, data)
        failed == [Effect EXCEPT !.code = 204]
    IN  IF v.k \in {"ValueError", "NotImplementedError"}
            THEN [failed EXCEPT !.raised = v.k,
                    !.calls = <<"setResponseCode", "content.read", "grparse">>]
        ELSE IF ~accepts
            THEN [failed EXCEPT !.raised = "SetterError",
                    !.calls = <<"setResponseCode", "content.read", "grparse",
                                "cell.set">>]
        ELSE [Effect EXCEPT
                !.calls = <<"setResponseCode", "content.read", "grparse",
                            "cell.set", "note_dirty">>,
                !.set = TRUE, !.value = v, !.code = 204, !.body = <<>>]

\* render_PUT that notes the state dirty before it calls the setter
CellResource_render_PUT_early(cr, data, accepts) ==
    LET v == CellResource_grparse(cr.kind, data) IN
    IF v.k \in {"ValueError", "NotImplementedError"}
        THEN Raise(v.k, <<"content.read", "note_dirty", "grparse">>)
    ELSE IF ~accepts
        THEN Raise("SetterError",
                   <<"content.read", "note_dirty", "grparse", "cell.set">>)
    ELSE [Effect EXCEPT
            !.calls = <<"content.read", "note_dirty", "grparse", "cell.set",
                        "setResponseCode">>,
            !.set = TRUE, !.value = v, !.code = 204, !.body = <<>>]

\* _CellResource.render_PUT; accepts: the cell's setter takes the value
CellResource_render_PUT(cr, data, accepts) ==
    LET v == CellResource_grparse(cr.kind, data) IN
    IF v.k \in {"ValueError", "NotImplementedError"}
        THEN Raise(v.k, <<"content.read", "grparse">>)
    ELSE IF ~accepts
        THEN Raise("SetterError", <<"content.read", "grparse", "cell.set">>)
    ELSE [Effect EXCEPT
            !.calls = <<"content.read", "grparse", "cell.set",
                        "setResponseCode", "note_dirty">>,
            !.set = TRUE, !.value = v, !.code = 204, !.body = <<>>]

\* request.prePathURL(), without the scheme and host: each segment of the
\* prepath escaped and preceded by a slash
RECURSIVE prePathURL(_)
prePathURL(prepath) ==
    IF prepath = <<>> THEN <<>>
    ELSE <<"/">> \o quote(Head(prepath), {}) \o prePathURL(Tail(prepath))

\* 'application/json' in accept
AcceptsJson(accept) ==
    accept.present /\ Contains(HeaderText(accept.ranges), application_json)

\* BlockResource.render_GET
BlockResource_render_GET(accept) ==
    IF AcceptsJson(accept)
        THEN [Effect EXCEPT !.calls = <<"getHeader", "setHeader",
                                        "state_description">>,
                            !.contentType = "application/json",
                            !.repr = "json"]
        ELSE [Effect EXCEPT !.calls = <<"getHeader", "setHeader",
                                        "renderElement">>,
                            !.contentType = "text/html;charset=utf-8",
                            !.repr = "html"]

\* render_POST that tests the capability only when it is about to create
BlockResource_render_POST_late(r, prepath, isJson, content, accepted, key) ==
    IF ~isJson
        THEN Raise("AssertionError", <<"getHeader">>)
    ELSE IF json_loads(content).k = "ValueError"
        THEN Raise("ValueError", <<"getHeader", "json.load">>)
    ELSE IF ~blocks[r.block].writable
        THEN Raise("Block is not a writable collection",
                   <<"getHeader", "json.load">>)
    ELSE IF ~accepted
        THEN Raise("CreateError", <<"getHeader", "json.load", "create_child">>)
    ELSE LET url == prePathURL(prepath)
                    \o <<"/">> \o receivers \o <<"/">> \o quote(key, {})
         IN  [Effect EXCEPT
                !.calls = <<"getHeader", "json.load", "create_child",
                            "note_dirty", "setResponseCode", "setHeader">>,
                !.create = TRUE, !.block = r.block, !.key = key,
                !.code = 201, !.location = url,
                !.body = serialize(JStr(url))]

\* render_POST that notes the state dirty before it calls create_child
BlockResource_render_POST_dirty(r, prepath, isJson, content, accepted, key) ==
    IF ~blocks[r.block].writable
        THEN Raise("Block is not a writable collection", <<>>)
    ELSE IF ~isJson
        THEN Raise("AssertionError", <<"getHeader">>)
    ELSE IF json_loads(content).k = "ValueError"
        THEN Raise("ValueError", <<"getHeader", "json.load">>)
    ELSE IF ~accepted
        THEN Raise("CreateError",
                   <<"getHeader", "json.load", "note_dirty", "create_child">>)
    ELSE LET url == prePathURL(prepath)
                    \o <<"/">> \o receivers \o <<"/">> \o quote(key, {})
         IN  [Effect EXCEPT
                !.calls = <<"getHeader", "json.load", "note_dirty",
                            "create_child", "setResponseCode", "setHeader">>,
                !.create = TRUE, !.block = r.block, !.key = key,
                !.code = 201, !.location = url,
                !.body = serialize(JStr(url))]

\* BlockResource.render_POST on resource r reached along prepath; isJson:
\* the request's Content-Type is application/json; accepted and key: whether
\* create_child takes the description, and the key it then returns
BlockResource_render_POST(r, prepath, isJson, content, accepted, key) ==
    IF ~blocks[r.block].writable
        THEN Raise("Block is not a writable collection", <<>>)
    ELSE IF ~isJson
        THEN Raise("AssertionError", <<"getHeader">>)
    ELSE IF json_loads(content).k = "ValueError"
        THEN Raise("ValueError", <<"getHeader", "json.load">>)
    ELSE IF ~accepted
        THEN Raise("CreateError", <<"getHeader", "json.load", "create_child">>)
    ELSE LET url == prePathURL(prepath)
                    \o <<"/">> \o receivers \o <<"/">> \o quote(key, {})
         IN  [Effect EXCEPT
                !.calls = <<"getHeader", "json.load", "create_child",
                            "note_dirty", "setResponseCode", "setHeader">>,
                !.create = TRUE, !.block = r.block, !.key = key,
                !.code = 201, !.location = url,
                !.body = serialize(JStr(url))]

\* a deleter that does not test the parent's capability
deleter_unchecked(parent, name) ==
    IF name \notin DOMAIN blocks[parent].state
        THEN Raise("KeyError", <<"delete_child">>)
    ELSE [Effect EXCEPT !.calls = <<"delete_child">>, !.delete = TRUE,
                        !.block = parent, !.name = name]

\* the deleter closure of __makeChildBlockResource, made by the resource of
\* block parent for the child resolved as name
deleter(parent, name) ==
    IF ~blocks[parent].writable
        THEN Raise("Block is not a writable collection", <<>>)
    ELSE IF name \notin DOMAIN blocks[parent].state
        THEN Raise("KeyError", <<"delete_child">>)
    ELSE [Effect EXCEPT !.calls = <<"delete_child">>, !.delete = TRUE,
                        !.block = parent, !.name = name]

\* render_DELETE that notes the state dirty before it calls the deleter
BlockResource_render_DELETE_dirtyFirst(rs, r) ==
    LET d == rs[r].deleteSelf
        e == IF d = NotDeletable
                THEN Raise("not deletable", <<"note_dirty">>)
                ELSE deleter(rs[d.parent].block, d.name)
    IN  IF e.raised # "" THEN [e EXCEPT !.calls = <<"note_dirty">> \o e.calls]
        ELSE [e EXCEPT !.calls = <<"note_dirty">> \o e.calls
                                    \o <<"setResponseCode">>,
                       !.code = 204, !.body = <<>>]

\* BlockResource.render_DELETE on resource r of rs
BlockResource_render_DELETE(rs, r) ==
    LET d == rs[r].deleteSelf
        e == IF d = NotDeletable
                THEN Raise("not deletable", <<>>)
                ELSE deleter(rs[d.parent].block, d.name)
    IN  IF e.raised # "" THEN e
        ELSE [e EXCEPT !.calls = e.calls \o <<"note_dirty", "setResponseCode">>,
                       !.code = 204, !.body = <<>>]

\* what the site answers when the traversal ends at no resource, or the
\* resource has no handler for the method
NoResource == [Effect EXCEPT !.raised = "NoResource", !.code = 404]

UnsupportedMethod == [Effect EXCEPT !.raised = "UnsupportedMethod", !.code = 405]

(***************************************************************************)
(* The graph image.  A request is the record of what was done to it (log), *)
(* what was written to the subprocess's standard input (stdin), the chunks *)
(* of standard output that have arrived (arrived) and whether standard     *)
(* output has ended (ended).                                               *)
(***************************************************************************)
Ev(op, data) == [op |-> op, data |-> data]

\* block.dot_graph()
dot_graph == "digraph"

\* render_GET that leaves the subprocess's standard input open
FlowgraphVizResource_render_GET_open ==
    [log |-> <<Ev("setHeader", "image/png")>>,
     stdin |-> <<Ev("write", dot_graph)>>,
     arrived |-> <<>>,
     ended |-> FALSE]

\* FlowgraphVizResource.render_GET: the request as the handler leaves it
FlowgraphVizResource_render_GET ==
    [log |-> <<Ev("setHeader", "image/png")>>,
     stdin |-> <<Ev("write", dot_graph), Ev("loseConnection", "")>>,
     arrived |-> <<>>,
     ended |-> FALSE]

\* what FlowgraphVizResource.render_GET returns: NOT_DONE_YET
NotDoneYet ==
    [Effect EXCEPT !.calls = <<"setHeader", "spawnProcess", "pipes[0].write",
                               "pipes[0].loseConnection">>,
                   !.contentType = "image/png",
                   !.pending = TRUE]

\* outReceived that writes the chunk before what was written earlier
DotProcessProtocol_outReceived_first(rq, data) ==
    [rq EXCEPT !.arrived = Append(@, data),
               !.log = <<Head(@), Ev("write", data)>> \o Tail(@)]

\* _DotProcessProtocol.outReceived on the protocol of request rq
DotProcessProtocol_outReceived(rq, data) ==
    [rq EXCEPT !.arrived = Append(@, data),
               !.log = Append(@, Ev("write", data))]

\* _DotProcessProtocol.outConnectionLost on the protocol of request rq
DotProcessProtocol_outConnectionLost(rq) ==
    [rq EXCEPT !.ended = TRUE, !.log = Append(@, Ev("finish", ""))]

(***************************************************************************)
(* The record of the request last handled.                                 *)
(***************************************************************************)
IdleResp ==
    [verb |-> "", path |-> <<>>, reqBody |-> <<>>, kind |-> "idle",
     target |-> NoRes, leaf |-> NoLeaf, prepath |-> <<>>, steps |-> <<>>,
     accept |-> [present |-> FALSE, ranges |-> <<>>],
     effect |-> Effect, created |-> NoObj, changed |-> FALSE]

NoAccept == [present |-> FALSE, ranges |-> <<>>]

Response(verb, path, body, accept, W, e, created, changed) ==
    [verb |-> verb, path |-> path, reqBody |-> body, kind |-> W.kind,
     accept |-> accept,
     target |-> W.target, leaf |-> W.leaf, prepath |-> W.prepath,
     steps |-> W.steps, effect |-> e, created |-> created,
     changed |-> changed]

\* a _CellResource of the base class, made for the volume cell and rendered
\* directly rather than reached through the tree
BaseCellResource == [kind |-> "_CellResource", cell |-> VolumeCell]

DirectPath == <<<<"*">>>>

Direct ==
    [rs |-> res, lr |-> lastResolved, kind |-> "cell", target |-> NoRes,
     leaf |-> BaseCellResource, prepath |-> DirectPath, steps |-> <<>>]

(***************************************************************************)
(* The state model's own operations, as the interface describes them.      *)
(***************************************************************************)
\* cell.set(value) on a value cell
cell_set(c, value) == [cells EXCEPT ![c].value = value]

\* block.create_child(desc) returning key: a new static block with no cells
\* becomes the child named key; nb and nc are the new block and the new
\* cell that holds it
create_child(block, key, nb, nc) ==
    [blocks |->
        [b \in (DOMAIN blocks) \cup {nb} |->
            IF b = nb
                THEN [dynamic |-> FALSE, writable |-> FALSE, state |-> EmptyFn]
            ELSE IF b = block
                THEN [blocks[b] EXCEPT !.state = DictPut(@, key, nc)]
            ELSE blocks[b]],
     cells |-> DictPut(cells, nc,
                       [isBlock |-> TRUE, value |-> JNull, block |-> nb])]

\* block.delete_child(name)
delete_child(block, name) ==
    [blocks EXCEPT ![block].state = DictDel(@, name)]

Range(f) == {f[x] : x \in DOMAIN f}

\* the blocks and cells strongly reachable from blocks B and cells C
RECURSIVE Closure(_, _)
Closure(B, C) ==
    LET C2 == C \cup UNION {Range(blocks[b].state) : b \in B}
        B2 == B \cup {cells[c].block : c \in {x \in C2 : cells[x].isBlock}}
    IN  IF B2 = B /\ C2 = C THEN [blocks |-> B, cells |-> C]
        ELSE Closure(B2, C2)

\* what BlockResource r refers to strongly, apart from other resources: its
\* _block, and the cells of _blockCells and of its ValueCellResources.  The
\* keys of _blockResourceCache are weak references and are not counted.
HeldBy(rs, R) ==
    Closure({rs[r].block : r \in R},
            UNION {Range(rs[r].blockCells)
                     \cup {rs[r].children[k].cell : k \in DOMAIN rs[r].children}
                   : r \in R})

\* every resource is referenced from the cache of its parent, up to the root
\* resource, which the site holds; the application holds the root block
Live ==
    LET h == HeldBy(res, DOMAIN res)
    IN  Closure(h.blocks \cup {RootBlock}, h.cells)

(***************************************************************************)
(* Actions.                                                                *)
(***************************************************************************)
Init ==
    /\ blocks = (RootBlock :> [dynamic |-> FALSE, writable |-> FALSE,
                               state |-> (volume :> VolumeCell
                                          @@ receivers :> ReceiversCell)]
                 @@ CollectionBlock :> [dynamic |-> TRUE, writable |-> TRUE,
                                        state |-> EmptyFn])
    /\ cells = (VolumeCell :> [isBlock |-> FALSE, value |-> JNum(5),
                               block |-> NoObj]
                @@ ReceiversCell :> [isBlock |-> TRUE, value |-> JNull,
                                     block |-> CollectionBlock])
    /\ nextId = 3
    /\ res = <<BlockResource(RootBlock, NotDeletable)>>
    /\ lastResolved = EmptyFn
    /\ putHist = EmptyFn
    /\ deleted = {}
    /\ built = <<(volume :> VolumeCell @@ receivers :> ReceiversCell)>>
    /\ viz = <<>>
    /\ resp = IdleResp

\* the state of the block of every resource of rs at its construction; a
\* request constructs resources before its handler changes any block
NoteBuilt(rs) ==
    [r \in DOMAIN rs |->
        IF r \in DOMAIN built THEN built[r]
        ELSE blocks[rs[r].block].state]

\* a GET request for path.  The inputs a request brings are varied where
\* the resource it reaches reads them.
Request_GET(path, accept) ==
    LET W == Traverse(path)
        e == CASE W.kind = "none" -> NoResource
               [] W.kind = "cell" -> CellResource_render_GET(W.leaf)
               [] OTHER -> BlockResource_render_GET(accept)
    IN  /\ resp = IdleResp
        /\ W.kind # "block" => accept = NoAccept
        /\ res' = W.rs
        /\ built' = NoteBuilt(W.rs)
        /\ lastResolved' = W.lr
        /\ resp' = Response("GET", path, <<>>, accept, W, e, NoObj, FALSE)
        /\ UNCHANGED <<viz, blocks, cells, nextId, putHist, deleted>>

\* the value written through the leaf, recorded for the path
NotePut(hist, path, leaf, e) ==
    IF ~e.set THEN hist
    ELSE LET kept == {q \in DOMAIN hist : hist[q].cell # leaf.cell}
         IN  DictPut([q \in kept |-> hist[q]], path,
                     [cell |-> leaf.cell, value |-> e.value])

\* a PUT request for path with the body data
Request_PUT(path, data, accepts) ==
    LET W == Traverse(path)
        e == CASE W.kind = "none" -> NoResource
               [] W.kind = "cell" -> CellResource_render_PUT(W.leaf, data, accepts)
               [] OTHER -> UnsupportedMethod
        nc == IF e.set THEN cell_set(W.leaf.cell, e.value) ELSE cells
    IN  /\ resp = IdleResp
        /\ W.kind # "cell" => data = <<"7">> /\ accepts
        /\ res' = W.rs
        /\ built' = NoteBuilt(W.rs)
        /\ lastResolved' = W.lr
        /\ cells' = nc
        /\ putHist' = NotePut(putHist, path, W.leaf, e)
        /\ resp' = Response("PUT", path, data, NoAccept, W, e, NoObj, nc # cells)
        /\ UNCHANGED <<viz, blocks, nextId, deleted>>

\* GET and PUT on the base-class resource
Direct_GET ==
    /\ resp = IdleResp
    /\ resp' = Response("GET", DirectPath, <<>>, NoAccept, Direct,
                        CellResource_render_GET(BaseCellResource), NoObj, FALSE)
    /\ UNCHANGED <<viz, blocks, cells, nextId, res, lastResolved, putHist, deleted,
                   built>>

Direct_PUT(data, accepts) ==
    LET e == CellResource_render_PUT(BaseCellResource, data, accepts)
        nc == IF e.set THEN cell_set(BaseCellResource.cell, e.value) ELSE cells
    IN  /\ resp = IdleResp
        /\ cells' = nc
        /\ putHist' = NotePut(putHist, DirectPath, BaseCellResource, e)
        /\ resp' = Response("PUT", DirectPath, data, NoAccept, Direct, e,
                            NoObj, nc # cells)
        /\ UNCHANGED <<viz, blocks, nextId, res, lastResolved, deleted, built>>

\* a POST request for path
Request_POST(path, isJson, content, accepted, key) ==
    LET W == Traverse(path)
        e == CASE W.kind = "none" -> NoResource
               [] W.kind = "cell" -> UnsupportedMethod
               [] OTHER -> BlockResource_render_POST(W.rs[W.target], W.prepath,
                                                     isJson, content, accepted, key)
        made == create_child(e.block, e.key, nextId, nextId)
    IN  /\ resp = IdleResp
        /\ W.kind # "block" => isJson /\ accepted /\ key = <<"a">>
        /\ e.create => /\ nextId <= MaxBlocks
                       /\ key \notin DOMAIN blocks[e.block].state
        /\ res' = W.rs
        /\ built' = NoteBuilt(W.rs)
        /\ lastResolved' = W.lr
        /\ blocks' = IF e.create THEN made.blocks ELSE blocks
        /\ cells' = IF e.create THEN made.cells ELSE cells
        /\ nextId' = IF e.create THEN nextId + 1 ELSE nextId
        /\ resp' = Response("POST", path, content, NoAccept, W, e,
                            IF e.create THEN nextId ELSE NoObj, e.create)
        /\ deleted' = IF e.create THEN deleted \ {<<e.block, e.key>>}
                                   ELSE deleted
        /\ UNCHANGED <<viz, putHist>>

\* a DELETE request for path
Request_DELETE(path) ==
    LET W == Traverse(path)
        e == CASE W.kind = "none" -> NoResource
               [] W.kind = "cell" -> UnsupportedMethod
               [] OTHER -> BlockResource_render_DELETE(W.rs, W.target)
        nb == IF e.delete THEN delete_child(e.block, e.name) ELSE blocks
    IN  /\ resp = IdleResp
        /\ res' = W.rs
        /\ built' = NoteBuilt(W.rs)
        /\ lastResolved' = W.lr
        /\ blocks' = nb
        /\ resp' = Response("DELETE", path, <<>>, NoAccept, W, e, NoObj,
                            nb # blocks)
        /\ deleted' = IF e.delete THEN deleted \cup {<<e.block, e.name>>}
                                   ELSE deleted
        /\ UNCHANGED <<viz, cells, nextId, putHist>>

\* the model swaps the Block that block cell c holds for a new one
ModelSwap(c) ==
    /\ resp = IdleResp
    /\ cells[c].isBlock
    /\ nextId <= MaxBlocks
    /\ blocks' = DictPut(blocks, nextId,
                         [blocks[cells[c].block] EXCEPT !.state = EmptyFn])
    /\ cells' = [cells EXCEPT ![c].block = nextId]
    /\ nextId' = nextId + 1
    /\ UNCHANGED <<viz, res, lastResolved, putHist, deleted, built, resp>>

\* the application makes name key of block b refer to cell c
ModelPut(b, key, c) ==
    /\ resp = IdleResp
    /\ key \notin DOMAIN blocks[b].state
    /\ blocks' = [blocks EXCEPT ![b].state = DictPut(@, key, c)]
    /\ deleted' = deleted \ {<<b, key>>}
    /\ UNCHANGED <<viz, cells, nextId, res, lastResolved, putHist, built, resp>>

\* the application removes name key from block b
ModelRemove(b, key) ==
    /\ resp = IdleResp
    /\ key \in DOMAIN blocks[b].state
    /\ blocks' = delete_child(b, key)
    /\ UNCHANGED <<viz, cells, nextId, res, lastResolved, putHist, deleted, built,
                   resp>>

\* a garbage collection: every block and cell with no strong reference left
\* is freed, and the weak dictionaries drop the entries keyed by freed blocks
Collect ==
    LET live == Live IN
    /\ resp = IdleResp
    /\ (DOMAIN blocks) \cup (DOMAIN cells) # live.blocks \cup live.cells
    /\ blocks' = [b \in live.blocks |-> blocks[b]]
    /\ cells' = [c \in live.cells |-> cells[c]]
    /\ res' = [r \in DOMAIN res |->
                [res[r] EXCEPT !.cache =
                    [b \in (DOMAIN @) \cap live.blocks |-> @[b]]]]
    /\ deleted' = {d \in deleted : d[1] \in live.blocks}
    /\ UNCHANGED <<viz, nextId, lastResolved, putHist, built, resp>>

\* the site sends the response and drops the request; requests are handled
\* one at a time
Respond ==
    /\ resp # IdleResp
    /\ resp' = IdleResp
    /\ UNCHANGED <<viz, blocks, cells, nextId, res, lastResolved, putHist, deleted,
                   built>>

VizPath == <<<<"flow-graph">>>>

\* a GET request for the graph image: the handler starts the subprocess,
\* gives it the graph and returns
Viz_GET ==
    /\ resp = IdleResp
    /\ Len(viz) < MaxViz
    /\ viz' = Append(viz, FlowgraphVizResource_render_GET)
    /\ resp' = Response("GET", VizPath, <<>>, NoAccept,
                        [Direct EXCEPT !.kind = "viz", !.leaf = NoLeaf,
                                       !.prepath = VizPath],
                        NotDoneYet, NoObj, FALSE)
    /\ UNCHANGED <<blocks, cells, nextId, res, lastResolved, putHist, deleted,
                   built>>

\* a chunk of the standard output of the subprocess of request i arrives
Viz_outReceived(i, data) ==
    /\ ~viz[i].ended
    /\ Len(viz[i].arrived) < MaxChunks
    /\ viz' = [viz EXCEPT ![i] = DotProcessProtocol_outReceived(@, data)]
    /\ UNCHANGED <<blocks, cells, nextId, res, lastResolved, putHist, deleted,
                   built, resp>>

\* the standard output of the subprocess of request i ends
Viz_outConnectionLost(i) ==
    /\ ~viz[i].ended
    /\ viz' = [viz EXCEPT ![i] = DotProcessProtocol_outConnectionLost(@)]
    /\ UNCHANGED <<blocks, cells, nextId, res, lastResolved, putHist, deleted,
                   built, resp>>

Next ==
    \/ \E path \in ReqPaths, accept \in AcceptHeaders : Request_GET(path, accept)
    \/ \E path \in ReqPaths, in \in PutInputs :
            Request_PUT(path, in.data, in.accepts)
    \/ \E path \in ReqPaths, in \in PostInputs :
            Request_POST(path, in.isJson, in.content, in.accepted, in.key)
    \/ \E path \in ReqPaths : Request_DELETE(path)
    \/ Direct_GET
    \/ \E in \in PutInputs : Direct_PUT(in.data, in.accepts)
    \/ \E c \in DOMAIN cells : ModelSwap(c)
    \/ Collect
    \/ Respond

Spec == Init /\ [][Next]_vars

\* What the application adds: to the static root block a name for the cell
\* of the collection; to the dynamic collection a name for a value cell, and
\* a second name for a cell it has
ModelPuts ==
    {[b |-> RootBlock, key |-> <<"a">>, c |-> ReceiversCell],
     [b |-> CollectionBlock, key |-> <<"/">>, c |-> VolumeCell]}
    \cup {[b |-> CollectionBlock, key |-> <<"/">>, c |-> c] :
                c \in Range(blocks[CollectionBlock].state)}

\* What the application removes: a value cell of the static root block, and
\* any name of the dynamic collection
ModelRemoves ==
    {[b |-> RootBlock, key |-> volume]}
    \cup {[b |-> CollectionBlock, key |-> k] : k \in Keys}

\* the POST requests that create a child
EditPosts == {in \in PostInputs : in.isJson /\ in.accepted /\ in.content # <<>>}

\* The requests that resolve children, with an application that adds and
\* removes names of blocks between them.
EditNext ==
    \/ \E path \in ReqPaths \ {<<>>} : Request_GET(path, NoAccept)
    \/ \E in \in EditPosts :
            Request_POST(<<receivers>>, in.isJson, in.content, in.accepted,
                         in.key)
    \/ \E k \in Keys : Request_DELETE(<<receivers, k>>)
    \/ \E in \in ModelPuts : ModelPut(in.b, in.key, in.c)
    \/ \E in \in ModelRemoves : ModelRemove(in.b, in.key)
    \/ Collect
    \/ Respond

EditSpec == Init /\ [][EditNext]_vars

\* the paths, bodies and keys of the requests served beside the graph image
VizPaths == {<<volume>>, <<receivers>>, <<receivers, <<"a">>>>}

VizPuts == {in \in PutInputs : in.data \in {<<"7">>, <<>>}}

VizPosts == {in \in PostInputs : in.isJson /\ in.key = <<"a">>}

\* The graph image, with the other requests served while its subprocesses
\* run.
VizNext ==
    \/ Viz_GET
    \/ \E i \in DOMAIN viz, data \in Chunks : Viz_outReceived(i, data)
    \/ \E i \in DOMAIN viz : Viz_outConnectionLost(i)
    \/ \E path \in VizPaths : Request_GET(path, NoAccept)
    \/ \E in \in VizPuts : Request_PUT(<<volume>>, in.data, in.accepts)
    \/ \E in \in VizPosts :
            Request_POST(<<receivers>>, in.isJson, in.content, in.accepted,
                         in.key)
    \/ Request_DELETE(<<receivers, <<"a">>>>)
    \/ Respond

VizSpec == Init /\ [][VizNext]_vars

(***************************************************************************)
(* Properties.                                                             *)
(***************************************************************************)
Count(calls, x) == Cardinality({i \in 1..Len(calls) : calls[i] = x})

\* c is called, and every call of d comes after the first call of c
Before(calls, c, d) ==
    \E i \in 1..Len(calls) :
        /\ calls[i] = c
        /\ \A j \in 1..Len(calls) : calls[j] = d => i < j

Steps == {resp.steps[i] : i \in 1..Len(resp.steps)}

\* the decoded segments of a URL path
URLPath(url) ==
    LET segs == SplitSlash(url, <<>>)
    IN  [i \in 1..(Len(segs) - 1) |-> unquote(segs[i + 1])]

\* C1: a resolution of a name whose cell holds the Block it held at the
\* previous resolution of that name from the same parent returns the same
\* BlockResource as that resolution did.
IdentityStability ==
    \A st \in Steps :
        (st.prevR # NoRes /\ st.r # NoRes /\ st.prevBlock = st.block)
            => st.r = st.prevR

\* C1 witness: a dynamic parent that has resolved two children resolves one
\* of them again, to the resource it returned before.
IdentityStabilityWitness ==
    \E st \in Steps :
        /\ res[st.parent].dynamic
        /\ Cardinality(DOMAIN res[st.parent].cache) >= 2
        /\ st.prevR # NoRes
        /\ st.prevBlock = st.block
        /\ st.r = st.prevR

\* C2: a resolution of a name whose cell holds another Block than at the
\* previous resolution of that name from the same parent returns another
\* BlockResource than that resolution did, one that wraps the Block the cell
\* holds now.
IdentityRefresh ==
    \A st \in Steps :
        (st.prevR # NoRes /\ st.r # NoRes /\ st.prevBlock # st.block)
            => /\ st.r # st.prevR
               /\ res[st.r].block = st.block
               /\ res[st.prevR].block = st.prevBlock

\* C2 witness: a name of a dynamic parent is resolved after its Block has
\* been replaced.
IdentityRefreshWitness ==
    \E st \in Steps :
        /\ res[st.parent].dynamic
        /\ st.prevR # NoRes
        /\ st.r # NoRes
        /\ st.prevBlock # st.block

\* the blocks reachable from block b through the cells of block states
Children(b) == Closure({b}, {}).blocks \ {b}

\* C3: between requests, a Block that is a key of a BlockResource's cache and
\* is no longer reachable from that resource's block is not strongly
\* referenced from the cache's values; and a resolution returns the resource
\* of the Block the cell holds.
CacheNonRetention ==
    /\ resp = IdleResp =>
            \A p \in DOMAIN res : \A b \in DOMAIN res[p].cache :
                b \notin Children(res[p].block)
                    => b \notin HeldBy(res, Range(res[p].cache)).blocks
    /\ \A st \in Steps : st.r # NoRes => res[st.r].block = st.block

\* C4: the Location of a successful POST, resolved from the root resource,
\* is a BlockResource for the Block that the POST created.
CreateLocationConsistency ==
    (resp.verb = "POST" /\ resp.effect.create) =>
        LET W == Walk(res, lastResolved, RootRes,
                      URLPath(resp.effect.location), <<>>, <<>>)
        IN  /\ W.kind = "block"
            /\ W.rs[W.target].block = resp.created

PutDone == resp.verb = "PUT" /\ resp.kind = "cell"

\* C5: after a successful PUT the cell holds the value parsed from the body,
\* the response is 204 with an empty body, and note_dirty was called once,
\* after the one call of the setter.
PutSuccess ==
    (PutDone /\ resp.effect.raised = "") =>
        /\ cells[resp.leaf.cell].value
                = CellResource_grparse(resp.leaf.kind, resp.reqBody)
        /\ resp.effect.code = 204
        /\ resp.effect.body = <<>>
        /\ Count(resp.effect.calls, "cell.set") = 1
        /\ Count(resp.effect.calls, "note_dirty") = 1
        /\ Before(resp.effect.calls, "cell.set", "note_dirty")

\* C5 witness: a PUT has stored a string in the cell.
PutSuccessWitness ==
    /\ PutDone
    /\ resp.effect.raised = ""
    /\ cells[resp.leaf.cell].value = JStr(<<"a">>)

\* C6: a PUT that raises sets no 204 and does not call note_dirty; when it
\* raises in grparse the setter is not called and the cell is unchanged.
PutFailure ==
    (PutDone /\ resp.effect.raised # "") =>
        /\ resp.effect.code # 204
        /\ Count(resp.effect.calls, "setResponseCode") = 0
        /\ Count(resp.effect.calls, "note_dirty") = 0
        /\ resp.effect.raised \in {"ValueError", "NotImplementedError"}
            => /\ Count(resp.effect.calls, "cell.set") = 0
               /\ ~resp.changed

\* C6 witness: a PUT of a well-formed body to the base-class resource has
\* raised NotImplementedError.
PutFailureWitness ==
    /\ PutDone
    /\ resp.effect.raised = "NotImplementedError"
    /\ json_loads(resp.reqBody).k = "num"

\* C7: a GET of a path after a successful PUT there, with no write of the
\* cell in between, returns a body that parses to the value that was PUT.
RoundTrip ==
    (/\ resp.verb = "GET"
     /\ resp.kind = "cell"
     /\ resp.path \in DOMAIN putHist)
        => json_loads(resp.effect.body) = putHist[resp.path].value

\* C7 witness: such a GET after a PUT of a string.
RoundTripWitness ==
    /\ resp.verb = "GET"
    /\ resp.kind = "cell"
    /\ resp.path \in DOMAIN putHist
    /\ putHist[resp.path].value = JStr(<<"a">>)

\* the DELETE handled is for a resource whose parent block is no writable
\* collection
DeleteUnderPlainParent ==
    /\ resp.verb = "DELETE"
    /\ resp.kind = "block"
    /\ res[resp.target].deleteSelf # NotDeletable
    /\ ~blocks[res[res[resp.target].deleteSelf.parent].block].writable

\* C8: a DELETE on a resource whose parent block is no writable collection
\* raises, does not call delete_child or note_dirty, sets no 204 and leaves
\* every child mapping unchanged.
DeleteFailure ==
    DeleteUnderPlainParent =>
        /\ resp.effect.raised # ""
        /\ Count(resp.effect.calls, "delete_child") = 0
        /\ Count(resp.effect.calls, "note_dirty") = 0
        /\ resp.effect.code # 204
        /\ ~resp.changed

\* C8 witness: such a DELETE on a child that its parent's state still names.
DeleteFailureWitness ==
    /\ DeleteUnderPlainParent
    /\ res[resp.target].deleteSelf.name
            \in DOMAIN blocks[res[res[resp.target].deleteSelf.parent].block].state

PostToPlainBlock ==
    /\ resp.verb = "POST"
    /\ resp.kind = "block"
    /\ ~blocks[res[resp.target].block].writable

\* C9: a POST to a block that is no writable collection raises before any
\* other call: the body is not parsed, create_child and note_dirty are not
\* called, no 201 and no Location are set, and the model is unchanged.
PostNotWritable ==
    PostToPlainBlock =>
        /\ resp.effect.raised = "Block is not a writable collection"
        /\ resp.effect.calls = <<>>
        /\ resp.effect.code # 201
        /\ resp.effect.location = <<>>
        /\ ~resp.changed
        /\ resp.created = NoObj

\* C9 witness: such a POST whose body is well-formed JSON.
PostNotWritableWitness ==
    /\ PostToPlainBlock
    /\ json_loads(resp.reqBody).k = "num"

\* C10: a successful POST calls create_child once and then note_dirty once,
\* answers 201 with the same URL in the Location header and in the JSON body,
\* and the URL is the request's base URL followed by one segment, the
\* escaped key that create_child returned.
PostSuccess ==
    (resp.verb = "POST" /\ resp.effect.create) =>
        /\ Count(resp.effect.calls, "create_child") = 1
        /\ Count(resp.effect.calls, "note_dirty") = 1
        /\ Before(resp.effect.calls, "create_child", "note_dirty")
        /\ resp.effect.code = 201
        /\ json_loads(resp.effect.body) = JStr(resp.effect.location)
        /\ resp.effect.location
                = prePathURL(resp.prepath) \o <<"/">> \o quote(resp.effect.key, {})

\* C11: a successful DELETE calls the parent block's delete_child once, then
\* note_dirty once, then sets 204, and the name is gone from the parent
\* block's state; and a resolution from a dynamic resource of a name that a
\* DELETE before this request removed from its block, and that has not been
\* added again since, yields the NoResource page.
DeleteSuccess ==
    /\ (resp.verb = "DELETE" /\ resp.effect.delete) =>
            /\ Count(resp.effect.calls, "delete_child") = 1
            /\ Count(resp.effect.calls, "note_dirty") = 1
            /\ Before(resp.effect.calls, "delete_child", "note_dirty")
            /\ Before(resp.effect.calls, "note_dirty", "setResponseCode")
            /\ resp.effect.code = 204
            /\ resp.effect.name \notin DOMAIN blocks[resp.effect.block].state
    /\ \A st \in Steps :
            (/\ res[st.parent].dynamic
             /\ <<res[st.parent].block, st.name>> \in deleted
             /\ ~(/\ resp.effect.delete
                  /\ resp.effect.block = res[st.parent].block
                  /\ resp.effect.name = st.name))
                => st.r = NoRes

\* C11 witness: a name that resolved from a dynamic resource before a DELETE
\* removed it is resolved from that resource again.
DeleteSuccessWitness ==
    \E st \in Steps :
        /\ res[st.parent].dynamic
        /\ <<res[st.parent].block, st.name>> \in deleted
        /\ st.prevR # NoRes
        /\ st.r = NoRes

\* the names that requests and the application use
Names == Keys \cup {volume, receivers}

\* the site finds a child of resource r for name n
Resolves(r, n) ==
    \/ n \in DOMAIN res[r].children
    \/ getChild(res, r, n).r # NoRes

\* C12: for every BlockResource of a static block, a name resolves iff it
\* was a name of the block's state when the resource was constructed,
\* whatever names the block has now; the children installed are the
\* ValueCellResources of the value cells of that state; and every resource in
\* its cache was made for a name that has been resolved from it.
StaticSnapshot ==
    \A r \in DOMAIN res :
        ~res[r].dynamic =>
            /\ \A n \in Names : Resolves(r, n) <=> n \in DOMAIN built[r]
            /\ DOMAIN res[r].children
                    = {n \in DOMAIN built[r] : ~cells[built[r][n]].isBlock}
            /\ \A n \in DOMAIN res[r].children :
                    res[r].children[n]
                        = [kind |-> "ValueCellResource", cell |-> built[r][n]]
            /\ \A c \in Range(res[r].cache) :
                    /\ res[c].deleteSelf.parent = r
                    /\ <<r, res[c].deleteSelf.name>> \in DOMAIN lastResolved

\* C12 witness: a GET reaches the value cell of a name that the static root
\* block has lost, while the block has a name it did not have when the root
\* resource was constructed.
StaticSnapshotWitness ==
    /\ resp.verb = "GET"
    /\ resp.kind = "cell"
    /\ resp.path = <<volume>>
    /\ volume \notin DOMAIN blocks[RootBlock].state
    /\ <<"a">> \in DOMAIN blocks[RootBlock].state

\* name n of the current state of block b refers to a block cell
NamesBlockNow(b, n) ==
    /\ n \in DOMAIN blocks[b].state
    /\ cells[blocks[b].state[n]].isBlock

\* C13: a BlockResource of a dynamic block has no installed children, and
\* its getChild finds a resource for a name iff the block's state now has
\* the name and the name refers to a block cell; the resource found wraps
\* the Block the cell holds.  Every resolution that a GET made from such a
\* resource went so.
DynamicLookup ==
    /\ \A r \in DOMAIN res :
            blocks[res[r].block].dynamic =>
                /\ res[r].children = EmptyFn
                /\ \A n \in Names :
                        LET g == getChild(res, r, n) IN
                        /\ g.r # NoRes <=> NamesBlockNow(res[r].block, n)
                        /\ g.r # NoRes =>
                             g.rs[g.r].block
                                = cells[blocks[res[r].block].state[n]].block
    /\ resp.verb = "GET" =>
            \A st \in Steps :
                blocks[res[st.parent].block].dynamic =>
                    (st.r # NoRes <=> NamesBlockNow(res[st.parent].block, st.name))

\* C13 witness: a name that the dynamic collection did not have when its
\* resource was constructed, and that resolved to a BlockResource once,
\* refers to a value cell now and a GET does not resolve it.
DynamicLookupWitness ==
    /\ resp.verb = "GET"
    /\ \E st \in Steps :
            /\ blocks[res[st.parent].block].dynamic
            /\ st.name \notin DOMAIN built[st.parent]
            /\ st.prevR # NoRes
            /\ st.name \in DOMAIN blocks[res[st.parent].block].state
            /\ ~NamesBlockNow(res[st.parent].block, st.name)
            /\ st.r = NoRes

IsWrite(e) == e.op = "write"

\* the chunks written to the response of a graph-image request, in order
Written(rq) ==
    LET w == SelectSeq(rq.log, IsWrite)
    IN  [j \in 1..Len(w) |-> w[j].data]

\* C14: for every graph-image request, the first thing done to the response
\* is to set the Content-Type image/png; the chunks written to it are the
\* chunks of standard output that have arrived, in their order of arrival;
\* it is finished at most once, and it is finished iff standard output has
\* ended; and nothing is done to it after it is finished.
GraphImageStream ==
    \A i \in DOMAIN viz :
        LET log == viz[i].log IN
        /\ Len(log) >= 1
        /\ log[1] = Ev("setHeader", "image/png")
        /\ \A j \in 2..Len(log) : log[j].op \in {"write", "finish"}
        /\ Written(viz[i]) = viz[i].arrived
        /\ Cardinality({j \in 1..Len(log) : log[j].op = "finish"})
                = IF viz[i].ended THEN 1 ELSE 0
        /\ \A j \in 1..Len(log) : log[j].op = "finish" => j = Len(log)

\* C14 witness: the standard output of a subprocess has ended after two
\* different chunks arrived.
GraphImageStreamWitness ==
    \E i \in DOMAIN viz :
        /\ viz[i].ended
        /\ viz[i].arrived = <<"x", "y">>

\* the Accept header prefers JSON: it lists application/json with a quality
\* above 0 that no other range it lists exceeds
PrefersJson(accept) ==
    /\ accept.present
    /\ \E i \in 1..Len(accept.ranges) :
            /\ accept.ranges[i].type = application_json
            /\ accept.ranges[i].q > 0
            /\ \A j \in 1..Len(accept.ranges) :
                    accept.ranges[j].q <= accept.ranges[i].q

\* C15: a GET of a block answers with exactly one representation: the JSON
\* description, as application/json, when the Accept header prefers JSON,
\* and the HTML page, as text/html, otherwise.
ContentNegotiation ==
    (resp.verb = "GET" /\ resp.kind = "block") =>
        IF PrefersJson(resp.accept)
            THEN /\ resp.effect.repr = "json"
                 /\ resp.effect.contentType = "application/json"
            ELSE /\ resp.effect.repr = "html"
                 /\ resp.effect.contentType = "text/html;charset=utf-8"

\* C16: a successful DELETE on the resource that the request resolved as
\* name n from parent resource P called delete_child of P's block with n,
\* and n is the name that P's block lost.
DeleterName ==
    (resp.verb = "DELETE" /\ resp.effect.delete) =>
        LET last == resp.steps[Len(resp.steps)] IN
        /\ resp.effect.block = res[last.parent].block
        /\ resp.effect.name = last.name
        /\ last.name \notin DOMAIN blocks[res[last.parent].block].state

PostToCollection ==
    /\ resp.verb = "POST"
    /\ resp.kind = "block"
    /\ blocks[res[resp.target].block].writable

\* C17: a POST to a writable collection whose body is no JSON text raises,
\* and a POST there that raises, for the body or because create_child
\* rejects the description, has called create_child at most once (once when
\* create_child rejected) and note_dirty never, has set neither a response
\* code nor a header, and has created nothing.
PostFailure ==
    PostToCollection =>
        /\ json_loads(resp.reqBody).k = "ValueError"
                => resp.effect.raised \in {"AssertionError", "ValueError"}
        /\ resp.effect.raised # "" =>
                /\ Count(resp.effect.calls, "create_child")
                        = IF resp.effect.raised = "CreateError" THEN 1 ELSE 0
                /\ Count(resp.effect.calls, "note_dirty") = 0
                /\ Count(resp.effect.calls, "setResponseCode") = 0
                /\ Count(resp.effect.calls, "setHeader") = 0
                /\ resp.effect.code # 201
                /\ resp.effect.location = <<>>
                /\ ~resp.changed
                /\ resp.created = NoObj

\* C17 witness: create_child has rejected the description of a POST.
PostFailureWitness ==
    /\ PostToCollection
    /\ resp.effect.raised = "CreateError"

\* what holds of the handlers' returns in every state: only the graph-image
\* GET returns NOT_DONE_YET, and by then it has written the graph to the
\* subprocess's standard input and closed it; every other handler returns
\* its complete response; and between requests a PUT can be served, whatever
\* the subprocesses do
OnlyVizPending ==
    /\ resp # IdleResp => (resp.effect.pending <=> resp.kind = "viz")
    /\ resp.kind = "viz" =>
            /\ Before(resp.effect.calls, "pipes[0].write",
                      "pipes[0].loseConnection")
            /\ viz # <<>>
    /\ \A i \in DOMAIN viz :
            viz[i].stdin = <<Ev("write", dot_graph), Ev("loseConnection", "")>>
    /\ resp = IdleResp =>
            ENABLED Request_PUT(<<volume>>, <<"7">>, TRUE)

\* a step that changes a block or a cell is the step of one handler that
\* returns its complete response, and it leaves the graph-image requests
\* alone; a step of a subprocess changes no block, cell or resource
AtomicMutation ==
    /\ (blocks' # blocks \/ cells' # cells) =>
            /\ resp = IdleResp
            /\ resp'.changed
            /\ ~resp'.effect.pending
            /\ viz' = viz
    /\ viz' # viz =>
            UNCHANGED <<blocks, cells, nextId, res, lastResolved>>

\* C18: only the graph-image GET suspends, having given the subprocess the
\* graph and closed its input; every other handler completes in its one
\* step, so that while a subprocess has not ended its output the other
\* requests are served and each change of the model is one atomic step.
Suspension == []OnlyVizPending /\ [][AtomicMutation]_vars

\* C18 witness: a PUT has changed a cell while the output of the subprocess
\* of a graph-image request, of which a chunk has arrived, has not ended.
SuspensionWitness ==
    /\ resp.verb = "PUT"
    /\ resp.changed
    /\ \E i \in DOMAIN viz : ~viz[i].ended /\ viz[i].arrived # <<>>

\* C19: every entry of the cache of a BlockResource maps a Block to a
\* resource that isForBlock that Block and no other; and the resource that a
\* resolution returned isForBlock the Block the named cell held, and no
\* other.
CacheIdentity ==
    /\ \A p \in DOMAIN res : \A b \in DOMAIN res[p].cache :
            \A b2 \in (DOMAIN blocks) \cup {b} :
                isForBlock(res, res[p].cache[b], b2) <=> b2 = b
    /\ \A st \in Steps :
            st.r # NoRes =>
                \A b2 \in (DOMAIN blocks) \cup {st.block} :
                    isForBlock(res, st.r, b2) <=> b2 = st.block

\* C19 witness: a resource whose cache has entries for two Blocks has
\* resolved a name to another resource than the time before.
CacheIdentityWitness ==
    \E st \in Steps :
        /\ Cardinality(DOMAIN res[st.parent].cache) >= 2
        /\ st.r # NoRes
        /\ st.prevR # NoRes
        /\ st.prevR # st.r

\* the calls that change the model or report a change
Mutators == {"cell.set", "create_child", "delete_child", "note_dirty"}

\* the step serves a request other than one for the graph image
ServesRequest == resp = IdleResp /\ resp' # IdleResp /\ resp'.kind # "viz"

\* the step leaves every resource as it was, except that the cache of a
\* resource from which the request resolved a name may have one more entry
\* for each Block so found; it may construct resources
ResolutionFrame ==
    /\ Len(res') >= Len(res)
    /\ \A r \in DOMAIN res :
            /\ res'[r] = [res[r] EXCEPT !.cache = res'[r].cache]
            /\ \A b \in DOMAIN res[r].cache :
                    /\ b \in DOMAIN res'[r].cache
                    /\ res'[r].cache[b] = res[r].cache[b]
            /\ \A b \in (DOMAIN res'[r].cache) \ (DOMAIN res[r].cache) :
                    \E i \in 1..Len(resp'.steps) :
                        /\ resp'.steps[i].parent = r
                        /\ resp'.steps[i].block = b

ReadOnly ==
    /\ ServesRequest => ResolutionFrame
    /\ (ServesRequest /\ resp'.verb = "GET") =>
            /\ blocks' = blocks
            /\ cells' = cells
            /\ \A i \in 1..Len(resp'.effect.calls) :
                    resp'.effect.calls[i] \notin Mutators

\* C20: a GET of a value resource or a block resource calls no setter, no
\* create_child, no delete_child and no note_dirty and leaves every block
\* and every cell as it was; and the resolution of a request's path changes
\* of the resources only the caches of those it resolved a name from.
ReadsAreReadOnly == [][ReadOnly]_vars

\* C20 witness: a GET of a block has resolved a name for the first time, to
\* the resource constructed last.
ReadsAreReadOnlyWitness ==
    /\ resp.verb = "GET"
    /\ resp.kind = "block"
    /\ \E st \in Steps :
            /\ st.prevR = NoRes
            /\ st.r = Len(res)
            /\ st.block \in DOMAIN res[st.parent].cache

=============================================================================
